---- MODULE Spec2Model ----
(***************************************************************************)
(* The workspace store of StudySpace (WorkspaceProvider, src/AIContext.jsx *)
(* lines 423-1072): four React state cells (projects, documents, tasks,    *)
(* messages) and the operations the provider exposes on them; and its      *)
(* session (AuthProvider, src/AuthContext.jsx): the user, loading and      *)
(* error cells, the browser's localStorage, and login, logout,             *)
(* updateProfile and the permission helpers.                               *)
(*                                                                         *)
(* A JavaScript object is a TLA+ function whose domain is the set of its   *)
(* own property names, so that a missing property is a name outside the    *)
(* domain and the spread {...a, ...b} is Merge(a, b).  An array is a       *)
(* sequence.  Emoji and the arrow of the seeded data are written with      *)
(* ASCII names; every other seeded string is the source's.                 *)
(*                                                                         *)
(* Every operation runs to completion inside one event handler: its        *)
(* functional setState updaters are applied in order in one batch, so an   *)
(* operation is one atomic action.  login alone awaits a timer: it is one  *)
(* action up to the await and one from it on.                              *)
(***************************************************************************)
EXTENDS Integers, Sequences, FiniteSets, TLC

VARIABLES
    projects,     \* useState(INITIAL_PROJECTS)
    documents,    \* useState(INITIAL_DOCUMENTS)
    tasks,        \* useState(INITIAL_TASKS)
    messages,     \* useState(INITIAL_MESSAGES)
    now,          \* the clock read by Date.now() and new Date(), in ms
    last,         \* the last operation called: its name, arguments, result
    pre,          \* history: the four collections as they were before it
    docHist,      \* history, index-aligned with documents: how the record
                  \* came to be and how many updateDocument calls hit it
    fuel,         \* the number of further calls this run may still make
    user,         \* useState(null): << >> for null, <<object>> for a user
    loading,      \* useState(true)
    error,        \* useState(null): << >> for null, <<message>> otherwise
    localStorage, \* the browser's storage: the keys set, and their strings
    pending,      \* the login calls that wait at their timer, oldest first
    stale,        \* history: how many of the pending logins were called
                  \* before the last logout
    activeCollaborators, \* useState({}): document id -> user ids present
    documentLocks,       \* useState({}): document id -> user id
    isProcessing,    \* AIProvider: useState(false)
    chatHistory,     \* AIProvider: useState([])
    lastSuggestions, \* AIProvider: useState([])
    aiError,         \* AIProvider: its error cell, useState(null)
    inflight         \* the AI calls that wait at their timer, in call order

vars == <<projects, documents, tasks, messages, now, last, pre, docHist, fuel,
          user, loading, error, localStorage, pending, stale,
          activeCollaborators, documentLocks,
          isProcessing, chatHistory, lastSuggestions, aiError, inflight>>

\* The state of the workspace store, and the state of the session.
storeVars == <<projects, documents, tasks, messages, now, pre, docHist>>
authVars == <<user, loading, error, localStorage, pending, stale>>

\* The simulated real-time collaboration state of the store.
collabVars == <<activeCollaborators, documentLocks>>

\* The state of the AI assistant.
aiVars == <<isProcessing, chatHistory, lastSuggestions, aiError, inflight>>

\* ------------------------------------------------------------------ bounds

\* Calls (clock ticks included) explored from the seeded state when every
\* operation of the store is enabled.
MaxOps == 3

\* Calls explored when only the operations on one collection are enabled.
MaxDeep == 4

\* Steps of the session explored (a login is two: the call, the timer).
MaxAuth == 6

\* Steps of the AI assistant explored (a call is two: the call, the timer).
MaxAI == 4

\* ------------------------------------------------------- JavaScript values

\* The value of a missing property, and of a function that returns nothing.
Undefined == "undefined"

\* obj.key
Get(obj, key) == IF key \in DOMAIN obj THEN obj[key] ELSE Undefined

\* { ...a, ...b }: b's own properties win.
Merge(a, b) ==
    [k \in DOMAIN a \cup DOMAIN b |-> IF k \in DOMAIN b THEN b[k] ELSE a[k]]

\* The object with no property.
Empty == [k \in {} |-> Undefined]

\* array.filter(x => Get(x, key) !== value)
Without(array, key, value) ==
    SelectSeq(array, LAMBDA x : Get(x, key) # value)

\* array.filter(x => Get(x, key) === value)
Where(array, key, value) ==
    SelectSeq(array, LAMBDA x : Get(x, key) = value)

\* array.find(x => x.id === id) !== undefined
HasId(array, id) == \E i \in 1..Len(array) : Get(array[i], "id") = id

\* The first instant of the run.  Date.now() is some 13-digit number of
\* milliseconds; only its differences and its decimal rendering matter.
Epoch == 1000

\* new Date().toISOString(): a rendering of the instant that is injective
\* and differs from the rendering inside a generated id.
ToISOString(t) == "T" \o ToString(t) \o "Z"

\* `${prefix}-${Date.now()}`
GenId(prefix, t) == prefix \o "-" \o ToString(t)

\* ------------------------------------------------------------ seeded data

INITIAL_PROJECTS == <<
    [id |-> "proj-1",
     name |-> "Machine Learning Study Group",
     description |-> "Collaborative notes and projects for ML course",
     color |-> "#6366f1", icon |-> "robot",
     createdAt |-> "2024-01-15", updatedAt |-> "2024-03-20",
     ownerId |-> "1", members |-> <<"1", "2", "3">>,
     status |-> "active",
     tags |-> <<"machine-learning", "python", "course">>],
    [id |-> "proj-2",
     name |-> "Capstone Project - AI Chatbot",
     description |-> "Final year project building an educational chatbot",
     color |-> "#10b981", icon |-> "speech",
     createdAt |-> "2024-02-01", updatedAt |-> "2024-03-18",
     ownerId |-> "2", members |-> <<"1", "2">>,
     status |-> "active",
     tags |-> <<"capstone", "nlp", "chatbot">>],
    [id |-> "proj-3",
     name |-> "Research Paper - Deep Learning",
     description |-> "Collaborative research paper on transformer architectures",
     color |-> "#f59e0b", icon |-> "memo",
     createdAt |-> "2024-02-15", updatedAt |-> "2024-03-15",
     ownerId |-> "1", members |-> <<"1", "2", "3">>,
     status |-> "active",
     tags |-> <<"research", "deep-learning", "transformers">>] >>

INITIAL_DOCUMENTS == <<
    [id |-> "doc-1", projectId |-> "proj-1",
     title |-> "Week 1 - Introduction to Neural Networks",
     content |-> "# Neural Networks Fundamentals\n\n## What is a Neural Network?\n\nA neural network is a computational model inspired by biological neurons...\n\n## Key Components\n- Input Layer\n- Hidden Layers\n- Output Layer\n- Activation Functions",
     type |-> "markdown",
     createdAt |-> "2024-01-16", updatedAt |-> "2024-03-10",
     createdBy |-> "1", lastEditedBy |-> "2",
     tags |-> <<"notes", "neural-networks">>,
     comments |-> << [id |-> "c1", userId |-> "2",
                      text |-> "Great summary! Could we add more about backpropagation?",
                      createdAt |-> "2024-03-11"] >>,
     version |-> 5,
     collaborators |-> <<"1", "2">>],
    [id |-> "doc-2", projectId |-> "proj-1",
     title |-> "Week 2 - Convolutional Neural Networks",
     content |-> "# CNNs Explained\n\n## Overview\nConvolutional Neural Networks are specialized for processing grid-like data...\n\n## Architecture\n1. Convolutional Layers\n2. Pooling Layers\n3. Fully Connected Layers",
     type |-> "markdown",
     createdAt |-> "2024-01-23", updatedAt |-> "2024-03-05",
     createdBy |-> "2", lastEditedBy |-> "1",
     tags |-> <<"notes", "cnn", "computer-vision">>,
     comments |-> << >>,
     version |-> 3,
     collaborators |-> <<"1", "2", "3">>],
    [id |-> "doc-3", projectId |-> "proj-2",
     title |-> "Chatbot Architecture Design",
     content |-> "# AI Chatbot Architecture\n\n## System Components\n- Frontend (React)\n- Backend (Python FastAPI)\n- AI Model (GPT-based)\n- Vector Database (Pinecone)\n\n## Data Flow\nUser Input -> NLP Processing -> Intent Recognition -> Response Generation -> Output",
     type |-> "markdown",
     createdAt |-> "2024-02-05", updatedAt |-> "2024-03-18",
     createdBy |-> "1", lastEditedBy |-> "1",
     tags |-> <<"architecture", "design", "technical">>,
     comments |-> << >>,
     version |-> 8,
     collaborators |-> <<"1", "2">>] >>

INITIAL_TASKS == <<
    [id |-> "task-1", projectId |-> "proj-1",
     title |-> "Complete Week 3 Notes",
     description |-> "Finish summarizing the RNN and LSTM lecture materials",
     status |-> "in-progress", priority |-> "high",
     dueDate |-> "2024-03-25", assigneeId |-> "2",
     createdBy |-> "1", createdAt |-> "2024-03-15",
     tags |-> <<"notes", "rnn">>,
     subtasks |-> <<
        [id |-> "st-1", title |-> "Watch lecture videos", completed |-> TRUE],
        [id |-> "st-2", title |-> "Take initial notes", completed |-> TRUE],
        [id |-> "st-3", title |-> "Add code examples", completed |-> FALSE],
        [id |-> "st-4", title |-> "Create summary diagram", completed |-> FALSE] >>,
     comments |-> << >>],
    [id |-> "task-2", projectId |-> "proj-2",
     title |-> "Implement User Authentication",
     description |-> "Add login/signup functionality with JWT tokens",
     status |-> "todo", priority |-> "high",
     dueDate |-> "2024-03-28", assigneeId |-> "1",
     createdBy |-> "2", createdAt |-> "2024-03-10",
     tags |-> <<"backend", "security">>,
     subtasks |-> <<
        [id |-> "st-5", title |-> "Setup JWT library", completed |-> FALSE],
        [id |-> "st-6", title |-> "Create auth endpoints", completed |-> FALSE],
        [id |-> "st-7", title |-> "Add password hashing", completed |-> FALSE] >>,
     comments |-> << >>],
    [id |-> "task-3", projectId |-> "proj-3",
     title |-> "Literature Review - Attention Mechanisms",
     description |-> "Research and summarize 10 papers on attention in transformers",
     status |-> "todo", priority |-> "medium",
     dueDate |-> "2024-04-01", assigneeId |-> "3",
     createdBy |-> "1", createdAt |-> "2024-03-12",
     tags |-> <<"research", "reading">>,
     subtasks |-> << >>,
     comments |-> << >>],
    [id |-> "task-4", projectId |-> "proj-1",
     title |-> "Setup Python Environment",
     description |-> "Create virtual environment with all required ML libraries",
     status |-> "completed", priority |-> "low",
     dueDate |-> "2024-03-20", assigneeId |-> "1",
     createdBy |-> "1", createdAt |-> "2024-03-01",
     tags |-> <<"setup", "python">>,
     subtasks |-> << >>,
     comments |-> << >>] >>

INITIAL_MESSAGES == <<
    [id |-> "msg-1", projectId |-> "proj-1", channelId |-> "general",
     userId |-> "1",
     content |-> "Hey team! I just uploaded the Week 2 notes. Let me know if anything needs clarification.",
     createdAt |-> "2024-03-15T10:30:00Z",
     reactions |-> << [emoji |-> "thumbsup", userIds |-> <<"2", "3">>] >>],
    [id |-> "msg-2", projectId |-> "proj-1", channelId |-> "general",
     userId |-> "2",
     content |-> "Thanks! The CNN explanation is really clear. Should we add some practice problems?",
     createdAt |-> "2024-03-15T10:45:00Z",
     reactions |-> << >>],
    [id |-> "msg-3", projectId |-> "proj-1", channelId |-> "general",
     userId |-> "3",
     content |-> "Great idea! I can create a quiz based on the material.",
     createdAt |-> "2024-03-15T11:00:00Z",
     reactions |-> << [emoji |-> "tada", userIds |-> <<"1", "2">>] >>] >>

\* ----------------------------------------------------------- bookkeeping

\* The four collections, as a snapshot.
Snapshot ==
    [projects |-> projects, documents |-> documents,
     tasks |-> tasks, messages |-> messages]

\* What a call leaves behind for the properties to read.
Called(op, args, ret) == [op |-> op, args |-> args, ret |-> ret, threw |-> FALSE]

\* A seeded document, in the history.
Seeded == [created |-> FALSE, updates |-> 0]

InitStore ==
    /\ projects = INITIAL_PROJECTS
    /\ documents = INITIAL_DOCUMENTS
    /\ tasks = INITIAL_TASKS
    /\ messages = INITIAL_MESSAGES
    /\ now = Epoch
    /\ last = Called("mount", << >>, Undefined)
    /\ pre = [projects |-> INITIAL_PROJECTS, documents |-> INITIAL_DOCUMENTS,
              tasks |-> INITIAL_TASKS, messages |-> INITIAL_MESSAGES]
    /\ docHist = [i \in 1..Len(INITIAL_DOCUMENTS) |-> Seeded]
    /\ activeCollaborators = Empty
    /\ documentLocks = Empty

\* null
Null == << >>

\* The session cells when AuthProvider is first rendered, before its
\* effect has run, over what the browser has in localStorage.
Mounting(storage) ==
    /\ user = Null
    /\ loading = TRUE
    /\ error = Null
    /\ localStorage = storage
    /\ pending = << >>
    /\ stale = 0

\* The cells of AIProvider when it is first rendered.
Idle ==
    /\ isProcessing = FALSE
    /\ chatHistory = << >>
    /\ lastSuggestions = << >>
    /\ aiError = Null
    /\ inflight = << >>

Init == InitStore /\ fuel = MaxOps /\ Mounting(Empty) /\ Idle

\* What a call that throws leaves behind.  The payload of a call is always
\* an object, so that the only throw is the TypeError of reading a property
\* of a missing property (undefined.map, undefined.find, spreading undefined
\* into an array, undefined.toLowerCase).
Thrown(op, args) == [op |-> op, args |-> args, ret |-> Undefined, threw |-> TRUE]

\* One call is made: it uses up fuel and records the state it started from.
Call(op, args, ret) ==
    /\ fuel > 0
    /\ fuel' = fuel - 1
    /\ last' = Called(op, args, ret)
    /\ pre' = Snapshot
    /\ UNCHANGED authVars
    /\ UNCHANGED collabVars
    /\ UNCHANGED aiVars

\* One call is made, and throws when a record among those of `array` with
\* the id it names lacks the property it reads; the updater then leaves the
\* collection as it was.
CallReading(op, args, ret, array, id, key) ==
    /\ fuel > 0
    /\ fuel' = fuel - 1
    /\ pre' = Snapshot
    /\ last' = IF \E i \in 1..Len(array) :
                     Get(array[i], "id") = id /\ key \notin DOMAIN array[i]
               THEN Thrown(op, args)
               ELSE Called(op, args, ret)
    /\ UNCHANGED authVars
    /\ UNCHANGED collabVars
    /\ UNCHANGED aiVars

\* Time passes between two calls.
Tick ==
    /\ fuel > 0
    /\ fuel' = fuel - 1
    /\ now' = now + 1
    /\ UNCHANGED <<projects, documents, tasks, messages, last, pre, docHist>>
    /\ UNCHANGED authVars
    /\ UNCHANGED collabVars
    /\ UNCHANGED aiVars

\* ------------------------------------------------------ project operations

\* A record in which the defaults are spread over the caller's fields.
NewProjectDefaultsLast(projectData, t) ==
    Merge(projectData,
          [id |-> GenId("proj", t),
           createdAt |-> ToISOString(t),
           updatedAt |-> ToISOString(t),
           status |-> "active",
           members |-> <<Get(projectData, "ownerId")>>])

\* The record createProject builds.
NewProject(projectData, t) ==
    Merge([id |-> GenId("proj", t),
           createdAt |-> ToISOString(t),
           updatedAt |-> ToISOString(t),
           status |-> "active",
           members |-> <<Get(projectData, "ownerId")>>],
          projectData)

createProject(projectData) ==
    LET newProject == NewProject(projectData, now) IN
    /\ Call("createProject", <<projectData>>, newProject)
    /\ projects' = Append(projects, newProject)
    /\ UNCHANGED <<documents, tasks, messages, now, docHist>>

\* An updater that merges into every project, whatever its id.
UpdatedProjectsTouchAll(prev, projectId, updates, t) ==
    [i \in 1..Len(prev) |->
        Merge(Merge(prev[i], updates), [updatedAt |-> ToISOString(t)])]

\* An updater that spreads the updates last, over the fresh updatedAt.
UpdatedProjectsPayloadLast(prev, projectId, updates, t) ==
    [i \in 1..Len(prev) |->
        IF Get(prev[i], "id") = projectId
        THEN Merge(Merge(prev[i], [updatedAt |-> ToISOString(t)]), updates)
        ELSE prev[i]]

\* prev.map(project => project.id === projectId ? {...} : project)
UpdatedProjects(prev, projectId, updates, t) ==
    [i \in 1..Len(prev) |->
        IF Get(prev[i], "id") = projectId
        THEN Merge(Merge(prev[i], updates), [updatedAt |-> ToISOString(t)])
        ELSE prev[i]]

updateProject(projectId, updates) ==
    /\ Call("updateProject", <<projectId, updates>>, Undefined)
    /\ projects' = UpdatedProjects(projects, projectId, updates, now)
    /\ UNCHANGED <<documents, tasks, messages, now, docHist>>

\* The history of the documents that Without(documents, key, value) keeps.
HistWithout(key, value) ==
    LET keep(i) == Get(documents[i], key) # value
        F[i \in 0..Len(documents)] ==
            IF i = 0 THEN << >>
            ELSE IF keep(i) THEN Append(F[i - 1], docHist[i]) ELSE F[i - 1]
    IN F[Len(documents)]

\* A cascade that compares the record's own id with the project's.
CascadeById(prev, projectId) == Without(prev, "id", projectId)

\* The cascade of deleteProject over one dependent collection.
Cascade(prev, projectId) == Without(prev, "projectId", projectId)

deleteProject(projectId) ==
    /\ Call("deleteProject", <<projectId>>, Undefined)
    /\ projects' = Without(projects, "id", projectId)
    /\ documents' = Cascade(documents, projectId)
    /\ tasks' = Cascade(tasks, projectId)
    /\ messages' = Cascade(messages, projectId)
    /\ docHist' = HistWithout("projectId", projectId)
    /\ UNCHANGED now

\* array.find(x => x.id === id)
Find(array, id) ==
    IF HasId(array, id)
    THEN array[CHOOSE i \in 1..Len(array) :
                  /\ Get(array[i], "id") = id
                  /\ \A j \in 1..(i - 1) : Get(array[j], "id") # id]
    ELSE Undefined

getProject(projectId) == Find(projects, projectId)

\* ----------------------------------------------------- document operations

\* The record createDocument builds.
NewDocument(docData, t) ==
    Merge([id |-> GenId("doc", t),
           createdAt |-> ToISOString(t),
           updatedAt |-> ToISOString(t),
           version |-> 1,
           comments |-> << >>,
           collaborators |-> <<Get(docData, "createdBy")>>],
          docData)

createDocument(docData) ==
    LET newDoc == NewDocument(docData, now) IN
    /\ Call("createDocument", <<docData>>, newDoc)
    /\ documents' = Append(documents, newDoc)
    /\ docHist' = Append(docHist, [created |-> TRUE, updates |-> 0])
    /\ UNCHANGED <<projects, tasks, messages, now>>

\* A record in which the updates are spread last, over the bookkeeping.
UpdatedDocumentPayloadLast(doc, updates, userId, t) ==
    Merge(Merge(doc,
                [updatedAt |-> ToISOString(t),
                 lastEditedBy |-> userId,
                 version |-> doc.version + 1]),
          updates)

\* A record that stays as it is when another user holds its lock.
UpdatedDocumentUnlessLocked(doc, updates, userId, t) ==
    IF /\ doc.id \in DOMAIN documentLocks
       /\ documentLocks[doc.id] # userId
    THEN doc
    ELSE Merge(Merge(doc, updates),
               [updatedAt |-> ToISOString(t),
                lastEditedBy |-> userId,
                version |-> doc.version + 1])

\* The record updateDocument puts in the place of a matching one.
UpdatedDocument(doc, updates, userId, t) ==
    Merge(Merge(doc, updates),
          [updatedAt |-> ToISOString(t),
           lastEditedBy |-> userId,
           version |-> doc.version + 1])

updateDocument(docId, updates, userId) ==
    /\ Call("updateDocument", <<docId, updates, userId>>, Undefined)
    /\ documents' = [i \in 1..Len(documents) |->
                        IF Get(documents[i], "id") = docId
                        THEN UpdatedDocument(documents[i], updates, userId, now)
                        ELSE documents[i]]
    /\ docHist' = [i \in 1..Len(documents) |->
                        IF Get(documents[i], "id") = docId
                        THEN [docHist[i] EXCEPT !.updates = @ + 1]
                        ELSE docHist[i]]
    /\ UNCHANGED <<projects, tasks, messages, now>>

deleteDocument(docId) ==
    /\ Call("deleteDocument", <<docId>>, Undefined)
    /\ documents' = Without(documents, "id", docId)
    /\ docHist' = HistWithout("id", docId)
    /\ UNCHANGED <<projects, tasks, messages, now>>

getProjectDocuments(projectId) == Where(documents, "projectId", projectId)

\* The record addDocumentComment builds.
NewComment(comment, t) ==
    Merge([id |-> GenId("c", t), createdAt |-> ToISOString(t)], comment)

addDocumentComment(docId, comment) ==
    LET newComment == NewComment(comment, now) IN
    /\ CallReading("addDocumentComment", <<docId, comment>>, newComment,
                   documents, docId, "comments")
    /\ documents' = IF last'.threw THEN documents ELSE
                    [i \in 1..Len(documents) |->
                        IF Get(documents[i], "id") = docId
                        THEN Merge(documents[i],
                                   [comments |->
                                      Append(documents[i].comments, newComment)])
                        ELSE documents[i]]
    /\ UNCHANGED <<projects, tasks, messages, now, docHist>>

\* --------------------------------------------------------- task operations

\* A createTask whose defaults overwrite the caller's fields.
NewTaskDefaultsWin(taskData, t) ==
    Merge(taskData,
          [id |-> GenId("task", t),
           createdAt |-> ToISOString(t),
           status |-> "todo",
           subtasks |-> << >>,
           comments |-> << >>])

\* The record createTask builds.
NewTask(taskData, t) ==
    Merge([id |-> GenId("task", t),
           createdAt |-> ToISOString(t),
           status |-> "todo",
           subtasks |-> << >>,
           comments |-> << >>],
          taskData)

createTask(taskData) ==
    LET newTask == NewTask(taskData, now) IN
    /\ Call("createTask", <<taskData>>, newTask)
    /\ tasks' = Append(tasks, newTask)
    /\ UNCHANGED <<projects, documents, messages, now, docHist>>

updateTask(taskId, updates) ==
    /\ Call("updateTask", <<taskId, updates>>, Undefined)
    /\ tasks' = [i \in 1..Len(tasks) |->
                    IF Get(tasks[i], "id") = taskId
                    THEN Merge(tasks[i], updates)
                    ELSE tasks[i]]
    /\ UNCHANGED <<projects, documents, messages, now, docHist>>

deleteTask(taskId) ==
    /\ Call("deleteTask", <<taskId>>, Undefined)
    /\ tasks' = Without(tasks, "id", taskId)
    /\ UNCHANGED <<projects, documents, messages, now, docHist>>

getProjectTasks(projectId) == Where(tasks, "projectId", projectId)

\* An updateSubtask that sets the flag of every subtask of the task.
UpdatedSubtasksAll(subtasks, subtaskId, completed) ==
    [j \in 1..Len(subtasks) |-> Merge(subtasks[j], [completed |-> completed])]

\* task.subtasks.map(st => st.id === subtaskId ? { ...st, completed } : st)
UpdatedSubtasks(subtasks, subtaskId, completed) ==
    [j \in 1..Len(subtasks) |->
        IF Get(subtasks[j], "id") = subtaskId
        THEN Merge(subtasks[j], [completed |-> completed])
        ELSE subtasks[j]]

updateSubtask(taskId, subtaskId, completed) ==
    /\ CallReading("updateSubtask", <<taskId, subtaskId, completed>>, Undefined,
                   tasks, taskId, "subtasks")
    /\ tasks' = IF last'.threw THEN tasks ELSE
                [i \in 1..Len(tasks) |->
                    IF Get(tasks[i], "id") = taskId
                    THEN Merge(tasks[i],
                               [subtasks |->
                                  UpdatedSubtasks(tasks[i].subtasks,
                                                  subtaskId, completed)])
                    ELSE tasks[i]]
    /\ UNCHANGED <<projects, documents, messages, now, docHist>>

\* ------------------------------------------------------ message operations

\* The record sendMessage builds.
NewMessage(messageData, t) ==
    Merge([id |-> GenId("msg", t),
           createdAt |-> ToISOString(t),
           reactions |-> << >>],
          messageData)

sendMessage(messageData) ==
    LET newMessage == NewMessage(messageData, now) IN
    /\ Call("sendMessage", <<messageData>>, newMessage)
    /\ messages' = Append(messages, newMessage)
    /\ UNCHANGED <<projects, documents, tasks, now, docHist>>

\* A filter that compares the channel only.
getChannelMessagesOfChannel(projectId, channelId) ==
    SelectSeq(messages, LAMBDA m : Get(m, "channelId") = channelId)

getChannelMessages(projectId, channelId) ==
    SelectSeq(messages, LAMBDA m : /\ Get(m, "projectId") = projectId
                                   /\ Get(m, "channelId") = channelId)

\* An addReaction that never looks for an entry of the emoji.
ReactedAppend(reactions, emoji, userId) ==
    Append(reactions, [emoji |-> emoji, userIds |-> <<userId>>])

\* An addReaction that lists a user once per emoji.
ReactedOnce(reactions, emoji, userId) ==
    IF \E k \in 1..Len(reactions) : reactions[k].emoji = emoji
    THEN [k \in 1..Len(reactions) |->
            IF /\ reactions[k].emoji = emoji
               /\ \A n \in 1..Len(reactions[k].userIds) :
                     reactions[k].userIds[n] # userId
            THEN Merge(reactions[k],
                       [userIds |-> Append(reactions[k].userIds, userId)])
            ELSE reactions[k]]
    ELSE Append(reactions, [emoji |-> emoji, userIds |-> <<userId>>])

\* The reactions addReaction leaves on a matching message.
Reacted(reactions, emoji, userId) ==
    IF \E k \in 1..Len(reactions) : reactions[k].emoji = emoji
    THEN [k \in 1..Len(reactions) |->
            IF reactions[k].emoji = emoji
            THEN Merge(reactions[k],
                       [userIds |-> Append(reactions[k].userIds, userId)])
            ELSE reactions[k]]
    ELSE Append(reactions, [emoji |-> emoji, userIds |-> <<userId>>])

addReaction(messageId, emoji, userId) ==
    /\ CallReading("addReaction", <<messageId, emoji, userId>>, Undefined,
                   messages, messageId, "reactions")
    /\ messages' = IF last'.threw THEN messages ELSE
                   [i \in 1..Len(messages) |->
                      IF Get(messages[i], "id") = messageId
                      THEN Merge(messages[i],
                                 [reactions |->
                                    Reacted(messages[i].reactions, emoji, userId)])
                      ELSE messages[i]]
    /\ UNCHANGED <<projects, documents, tasks, now, docHist>>

\* ------------------------------------------------------------------ search

UpperCase == "ABCDEFGHIJKLMNOPQRSTUVWXYZ"
LowerCase == "abcdefghijklmnopqrstuvwxyz"

\* One character of String.prototype.toLowerCase, on the ASCII range.
LowerChar(c) ==
    IF \E i \in 1..Len(UpperCase) : SubSeq(UpperCase, i, i) = c
    THEN LET i == CHOOSE i \in 1..Len(UpperCase) : SubSeq(UpperCase, i, i) = c
         IN SubSeq(LowerCase, i, i)
    ELSE c

\* s.toLowerCase(): character by character (the string is halved so that
\* the evaluation stays shallow).
RECURSIVE ToLowerCase(_)
ToLowerCase(s) ==
    IF Len(s) = 0 THEN s
    ELSE IF Len(s) = 1 THEN LowerChar(s)
    ELSE LET h == Len(s) \div 2
         IN ToLowerCase(SubSeq(s, 1, h)) \o ToLowerCase(SubSeq(s, h + 1, Len(s)))

\* s.includes(q)
Includes(s, q) ==
    \E i \in 0..(Len(s) - Len(q)) : SubSeq(s, i + 1, i + Len(q)) = q

\* The filter callback of searchWorkspace on one record: the two text fields
\* and then the tags, left to right, each read only when those before it did
\* not match (||).  Reading .toLowerCase() or .some() of a missing property
\* is a TypeError.
Matching(rec, field1, field2, lowerQuery) ==
    IF field1 \notin DOMAIN rec THEN "TypeError"
    ELSE IF Includes(ToLowerCase(rec[field1]), lowerQuery) THEN "match"
    ELSE IF field2 \notin DOMAIN rec THEN "TypeError"
    ELSE IF Includes(ToLowerCase(rec[field2]), lowerQuery) THEN "match"
    ELSE IF "tags" \notin DOMAIN rec THEN "TypeError"
    ELSE IF \E k \in 1..Len(rec.tags) :
                Includes(ToLowerCase(rec.tags[k]), lowerQuery) THEN "match"
    ELSE "no match"

\* array.filter(callback), when no callback throws.
Matched(array, field1, field2, lowerQuery) ==
    SelectSeq(array, LAMBDA rec : Matching(rec, field1, field2, lowerQuery) = "match")

\* Some callback of the filter throws.
Throwing(array, field1, field2, lowerQuery) ==
    \E i \in 1..Len(array) :
        Matching(array[i], field1, field2, lowerQuery) = "TypeError"

\* searchWorkspace(query) throws.
SearchThrows(query) ==
    LET lowerQuery == ToLowerCase(query) IN
    \/ Throwing(projects, "name", "description", lowerQuery)
    \/ Throwing(documents, "title", "content", lowerQuery)
    \/ Throwing(tasks, "title", "description", lowerQuery)

\* What searchWorkspace(query) returns when it does not throw.
SearchResult(query) ==
    LET lowerQuery == ToLowerCase(query)
        matchedProjects == Matched(projects, "name", "description", lowerQuery)
        matchedDocuments == Matched(documents, "title", "content", lowerQuery)
        matchedTasks == Matched(tasks, "title", "description", lowerQuery)
    IN [projects |-> matchedProjects,
        documents |-> matchedDocuments,
        tasks |-> matchedTasks,
        totalResults |-> Len(matchedProjects) + Len(matchedDocuments)
                            + Len(matchedTasks)]

searchWorkspace(query) ==
    /\ fuel > 0
    /\ fuel' = fuel - 1
    /\ pre' = Snapshot
    /\ last' = IF SearchThrows(query)
               THEN Thrown("searchWorkspace", <<query>>)
               ELSE Called("searchWorkspace", <<query>>, SearchResult(query))
    /\ UNCHANGED <<projects, documents, tasks, messages, now, docHist>>
    /\ UNCHANGED authVars
    /\ UNCHANGED collabVars
    /\ UNCHANGED aiVars

\* ----------------------------------------------------------- collaboration

\* A call of a collaboration operation: it returns nothing and leaves the
\* four collections and the session alone.
CollabCall(op, args) ==
    /\ fuel > 0
    /\ fuel' = fuel - 1
    /\ last' = Called(op, args, Undefined)
    /\ pre' = Snapshot
    /\ UNCHANGED <<projects, documents, tasks, messages, now, docHist>>
    /\ UNCHANGED authVars
    /\ UNCHANGED aiVars

\* prev[docId] || []
Present(prev, docId) == IF docId \in DOMAIN prev THEN prev[docId] ELSE << >>

\* { ...prev, [key]: value }
With(prev, key, value) == Merge(prev, [k \in {key} |-> value])

joinDocument(docId, userId) ==
    /\ CollabCall("joinDocument", <<docId, userId>>)
    /\ activeCollaborators' =
          With(activeCollaborators, docId,
               Append(Present(activeCollaborators, docId), userId))
    /\ UNCHANGED documentLocks

\* The list without the first entry of the user only.
RECURSIVE LeftOnce(_, _)
LeftOnce(present, userId) ==
    IF present = << >> THEN << >>
    ELSE IF Head(present) = userId THEN Tail(present)
    ELSE <<Head(present)>> \o LeftOnce(Tail(present), userId)

\* (prev[docId] || []).filter(id => id !== userId), given prev[docId] || []
Left(present, userId) == SelectSeq(present, LAMBDA id : id # userId)

leaveDocument(docId, userId) ==
    /\ CollabCall("leaveDocument", <<docId, userId>>)
    /\ activeCollaborators' =
          With(activeCollaborators, docId,
               Left(Present(activeCollaborators, docId), userId))
    /\ UNCHANGED documentLocks

\* A lock that is granted only when nobody else holds it.
LockedIfFree(prev, docId, userId) ==
    IF docId \in DOMAIN prev THEN prev ELSE With(prev, docId, userId)

\* prev => ({ ...prev, [docId]: userId })
Locked(prev, docId, userId) == With(prev, docId, userId)

lockDocument(docId, userId) ==
    /\ CollabCall("lockDocument", <<docId, userId>>)
    /\ documentLocks' = Locked(documentLocks, docId, userId)
    /\ UNCHANGED activeCollaborators

\* prev => { const newLocks = {...prev}; delete newLocks[docId]; ... }
Unlocked(prev, docId) == [k \in DOMAIN prev \ {docId} |-> prev[k]]

unlockDocument(docId) ==
    /\ CollabCall("unlockDocument", <<docId>>)
    /\ documentLocks' = Unlocked(documentLocks, docId)
    /\ UNCHANGED activeCollaborators

\* ----------------------------------------------------------------- session

SAMPLE_USERS == <<
    [id |-> "1", email |-> "admin@student.edu", password |-> "admin123",
     name |-> "Alex Admin", role |-> "admin", avatar |-> "woman-office",
     department |-> "Computer Science", joinedAt |-> "2024-01-15"],
    [id |-> "2", email |-> "editor@student.edu", password |-> "editor123",
     name |-> "Emma Editor", role |-> "editor", avatar |-> "man-student",
     department |-> "Data Science", joinedAt |-> "2024-02-20"],
    [id |-> "3", email |-> "viewer@student.edu", password |-> "viewer123",
     name |-> "Victor Viewer", role |-> "viewer", avatar |-> "woman-student",
     department |-> "Business", joinedAt |-> "2024-03-10"] >>

\* delete obj[key]
Delete(obj, key) == [k \in DOMAIN obj \ {key} |-> obj[k]]

\* localStorage.getItem (Undefined stands for its null), setItem, removeItem
GetItem(storage, key) == Get(storage, key)
SetItem(storage, key, value) == Merge(storage, [k \in {key} |-> value])
RemoveItem(storage, key) == Delete(storage, key)

\* The properties of a user object, in the order the literals of
\* SAMPLE_USERS list them, which is the order JSON.stringify meets them.
UserKeys == <<"id", "email", "password", "name", "role", "avatar",
              "department", "joinedAt">>

\* ,"key":"value" for each of the properties from the i-th on that obj has
RECURSIVE JSONMembers(_, _)
JSONMembers(obj, i) ==
    IF i > Len(UserKeys) THEN ""
    ELSE (IF UserKeys[i] \in DOMAIN obj
          THEN ",\"" \o UserKeys[i] \o "\":\"" \o obj[UserKeys[i]] \o "\""
          ELSE "")
         \o JSONMembers(obj, i + 1)

\* JSON.stringify of an object whose properties are strings
JSONStringify(obj) ==
    LET members == JSONMembers(obj, 1) IN
    "{" \o SubSeq(members, 2, Len(members)) \o "}"

\* updateProfile(updates), as the settings page sends it
ProfileUpdates == { [name |-> "Alex A.", department |-> "Physics"],
                    [role |-> "admin"],
                    [password |-> "hunter2"] }

\* The objects whose JSON text the storage can hold: a sample user without
\* password, or nothing, under the updates of updateProfile calls (the
\* three updates write different properties, so that a sequence of them
\* shows as one of each at most).
Profiles ==
    { Merge(Merge(Merge(b, u1), u2), u3) :
        b \in {Empty} \cup {Delete(SAMPLE_USERS[i], "password") :
                               i \in 1..Len(SAMPLE_USERS)},
        u1 \in {Empty} \cup ProfileUpdates,
        u2 \in {Empty} \cup ProfileUpdates,
        u3 \in {Empty} \cup ProfileUpdates }

\* JSON.parse: the object the text is the rendering of; a SyntaxError for
\* a text that renders no object.
JSONParses(text) == \E obj \in Profiles : JSONStringify(obj) = text
JSONParse(text) == CHOOSE obj \in Profiles : JSONStringify(obj) = text

\* A step of the session: it uses up fuel and leaves the store alone.
AuthCall(op, args, ret) ==
    /\ fuel > 0
    /\ fuel' = fuel - 1
    /\ last' = Called(op, args, ret)
    /\ UNCHANGED storeVars
    /\ UNCHANGED collabVars
    /\ UNCHANGED aiVars

\* The effect that runs once, right after the first render.
checkAuth ==
    LET savedUser == GetItem(localStorage, "currentUser") IN
    /\ last.op = "mount"
    /\ AuthCall("checkAuth", << >>, Undefined)
    /\ user' = IF savedUser # Undefined /\ savedUser # "" /\ JSONParses(savedUser)
               THEN <<JSONParse(savedUser)>>
               ELSE user
    /\ loading' = FALSE
    /\ UNCHANGED <<error, localStorage, pending, stale>>

\* login, up to its await: the promise it returns is not settled yet.
login(email, password) ==
    /\ last.op # "mount"
    /\ AuthCall("login", <<email, password>>, Undefined)
    /\ error' = Null
    /\ loading' = TRUE
    /\ pending' = Append(pending, <<email, password>>)
    /\ UNCHANGED <<user, localStorage, stale>>

\* A lookup that compares the email only.
FoundUsersByEmail(email, password) ==
    SelectSeq(SAMPLE_USERS, LAMBDA u : u.email = email)

\* SAMPLE_USERS.find(...): the users found, of which find takes the first
FoundUsers(email, password) ==
    SelectSeq(SAMPLE_USERS,
              LAMBDA u : u.email = email /\ u.password = password)

\* login, from its await on.  The timers all wait 500 ms, so they fire in
\* the order of the calls.
loginSettle ==
    /\ pending # << >>
    /\ LET email == Head(pending)[1]
           password == Head(pending)[2]
           found == FoundUsers(email, password)
       IN IF found # << >>
          THEN LET userWithoutPassword == Delete(found[1], "password") IN
               /\ AuthCall("loginSettle", <<email, password>>,
                           [success |-> TRUE])
               /\ user' = <<userWithoutPassword>>
               /\ localStorage' =
                     SetItem(SetItem(localStorage, "currentUser",
                                     JSONStringify(userWithoutPassword)),
                             "isAuthenticated", "true")
               /\ UNCHANGED error
          ELSE /\ AuthCall("loginSettle", <<email, password>>,
                           [success |-> FALSE,
                            error |-> "Invalid email or password"])
               /\ error' = <<"Invalid email or password">>
               /\ UNCHANGED <<user, localStorage>>
    /\ loading' = FALSE
    /\ pending' = Tail(pending)
    /\ stale' = IF stale > 0 THEN stale - 1 ELSE 0

\* The storage after the two removeItem calls of logout.
LoggedOut(storage) ==
    RemoveItem(RemoveItem(storage, "currentUser"), "isAuthenticated")

logout ==
    /\ last.op # "mount"
    /\ AuthCall("logout", << >>, Undefined)
    /\ user' = Null
    /\ localStorage' = LoggedOut(localStorage)
    /\ stale' = Len(pending)
    /\ UNCHANGED <<loading, error, pending>>

\* An async function without await: its body runs within the call.
updateProfile(updates) ==
    LET updatedUser == Merge(IF user = Null THEN Empty ELSE user[1], updates) IN
    /\ last.op # "mount"
    /\ AuthCall("updateProfile", <<updates>>, [success |-> TRUE])
    /\ user' = <<updatedUser>>
    /\ localStorage' = SetItem(localStorage, "currentUser",
                               JSONStringify(updatedUser))
    /\ UNCHANGED <<loading, error, pending, stale>>

\* user?.role
Role == IF user = Null THEN Undefined ELSE Get(user[1], "role")

isAdmin == Role = "admin"
canEdit == Role \in {"admin", "editor"}
isViewer == Role = "viewer"

\* A table in which the viewer may edit as well.
permissionsViewerEdits ==
    [admin |-> <<"manage_users", "delete_projects", "edit_settings",
                 "create", "edit", "view", "delete">>,
     editor |-> <<"create", "edit", "view">>,
     viewer |-> <<"edit", "view">>]

\* The table of hasPermission.
permissions ==
    [admin |-> <<"manage_users", "delete_projects", "edit_settings",
                 "create", "edit", "view", "delete">>,
     editor |-> <<"create", "edit", "view">>,
     viewer |-> <<"view">>]

\* permissions[user?.role]?.includes(permission) || false
hasPermission(permission) ==
    /\ Role \in DOMAIN permissions
    /\ \E n \in 1..Len(permissions[Role]) : permissions[Role][n] = permission

isAuthenticated == user # Null

\* What ProtectedRoute renders in the place of a protected page.
ProtectedRoute(children) ==
    IF GetItem(localStorage, "isAuthenticated") = "true"
    THEN children
    ELSE "Navigate to /login"

\* ------------------------------------------------------------ AI assistant
\* (AIProvider, src/AIContext.jsx lines 80-403.  The bullet of the chat
\* responses is written "*".)

\* The milliseconds a call waits at simulateDelay.
Delay(op) ==
    CASE op = "generateContent" -> 1500
      [] op = "summarizeDocument" -> 2000
      [] op = "getSmartSuggestions" -> 1000
      [] op = "chatWithAI" -> 1500
      [] op = "semanticSearch" -> 800
      [] op = "findRelatedContent" -> 600

\* AI_TEMPLATES.suggestions[...], and the default of the switch
Suggestions(context) ==
    CASE context = "task" ->
           << "Based on due dates and dependencies, consider prioritizing Task A before Task B.",
              "This task has high impact on project completion - recommend moving to high priority.",
              "Consider breaking this task into smaller subtasks for better tracking." >>
      [] context = "document" ->
           << "Consider adding a summary section at the beginning.",
              "Some technical terms could benefit from definitions.",
              "Adding code examples would enhance understanding.",
              "Consider organizing content with clearer headings." >>
      [] context = "project" ->
           << "Your project is 60% complete based on task status.",
              "3 tasks are approaching their deadlines this week.",
              "Consider scheduling a team sync to discuss blockers." >>
      [] OTHER -> << "No suggestions available for this context." >>

\* AI_TEMPLATES.summarize[length].replace(/{topic}/g, topic)
Summary(length, topic) ==
    CASE length = "short" ->
           "This document covers the fundamentals of " \o topic
           \o ", explaining key concepts and providing practical examples for implementation."
      [] length = "medium" ->
           "The document provides a comprehensive overview of " \o topic
           \o ". It begins with foundational concepts, progresses through intermediate topics, and concludes with advanced applications. Key takeaways include the importance of understanding core principles before moving to complex implementations."
      [] length = "long" ->
           "This is a detailed analysis of " \o topic
           \o "...\n\n**Key Points:**\n1. Foundation concepts are essential\n2. Practical examples reinforce learning\n3. Regular practice improves retention\n\n**Summary:** The material effectively covers "
           \o topic
           \o " from basics to advanced concepts, making it suitable for learners at various levels."

\* The position of the n-th space of s at or after i; Len(s) + 1 without.
RECURSIVE NthSpace(_, _, _)
NthSpace(s, n, i) ==
    IF i > Len(s) THEN Len(s) + 1
    ELSE IF SubSeq(s, i, i) = " "
         THEN IF n = 1 THEN i ELSE NthSpace(s, n - 1, i + 1)
         ELSE NthSpace(s, n, i + 1)

\* text.split(' ').slice(0, 5).join(' ')
FirstWords(text) == SubSeq(text, 1, NthSpace(text, 5, 1) - 1)

\* One character of String.prototype.toUpperCase, on the ASCII range.
UpperChar(c) ==
    IF \E i \in 1..Len(LowerCase) : SubSeq(LowerCase, i, i) = c
    THEN LET i == CHOOSE i \in 1..Len(LowerCase) : SubSeq(LowerCase, i, i) = c
         IN SubSeq(UpperCase, i, i)
    ELSE c

\* The result of the switch of generateContent.
Generated(prompt, type) ==
    CASE type = "outline" ->
           "## " \o prompt
           \o "\n\n### 1. Introduction\n- Overview\n- Objectives\n\n### 2. Main Content\n- Key Concept 1\n- Key Concept 2\n- Key Concept 3\n\n### 3. Conclusion\n- Summary\n- Next Steps"
      [] type = "brainstorm" ->
           "Consider exploring " \o prompt \o " from a different perspective"
           \o "\n\n" \o "What if you combined " \o prompt \o " with emerging trends?"
           \o "\n\n" \o "Have you thought about the practical applications?"
           \o "\n\n" \o "Consider the user's perspective in your approach"
      [] type = "expand" ->
           "## " \o prompt \o "\n\nHere's an expanded version of your topic:\n\n"
           \o prompt
           \o " is a fascinating subject that encompasses several key areas. First, we need to understand the foundational concepts. Then, we can explore practical applications and real-world use cases. Finally, we'll discuss future trends and opportunities for further learning.\n\n### Key Points\n- Understanding the basics is crucial\n- Practical application reinforces theory\n- Continuous learning leads to mastery"
      [] type = "rewrite" ->
           "Here's a refined version:\n\n"
           \o UpperChar(SubSeq(prompt, 1, 1)) \o SubSeq(prompt, 2, Len(prompt))
           \o ". This concept is fundamental to understanding the broader topic. Consider how it connects to related ideas and how it can be applied in practice."
      [] OTHER -> "Generated content for: " \o prompt

\* The response chatWithAI picks for a message and a context.
Response(message, context) ==
    LET lowerMessage == ToLowerCase(message) IN
    IF Includes(lowerMessage, "summarize") \/ Includes(lowerMessage, "summary")
    THEN "I can help you summarize content! Please share the text you'd like me to summarize, or select a document from your workspace."
    ELSE IF Includes(lowerMessage, "help") \/ Includes(lowerMessage, "what can you do")
    THEN "I'm your AI assistant! I can help you with:\n\n* **Content Generation**: Create outlines, expand ideas, brainstorm\n* **Summarization**: Condense long documents into key points\n* **Smart Suggestions**: Get recommendations for tasks and improvements\n* **Search**: Find relevant content across your workspace\n* **Writing Assistance**: Improve grammar, clarity, and style\n\nJust ask me anything!"
    ELSE IF Includes(lowerMessage, "task") \/ Includes(lowerMessage, "todo")
    THEN "I can help you manage tasks! You can:\n* Create new tasks by describing what needs to be done\n* Get suggestions for task prioritization\n* Break down complex tasks into subtasks\n\nWhat would you like to do?"
    ELSE IF Includes(lowerMessage, "document") \/ Includes(lowerMessage, "note")
    THEN "I can assist with your documents! I can:\n* Generate outlines for new documents\n* Summarize existing content\n* Suggest improvements\n* Help with formatting\n\nWhat would you like help with?"
    ELSE IF "currentDocument" \in DOMAIN context
    THEN "I see you're working on \"" \o context.currentDocument.title
         \o "\". Would you like me to:\n* Summarize this document\n* Suggest improvements\n* Help expand certain sections\n* Generate related content"
    ELSE "That's an interesting question about \""
         \o SubSeq(message, 1, IF Len(message) < 50 THEN Len(message) ELSE 50)
         \o "...\"\n\nBased on the context of your workspace, I'd suggest exploring this topic further by:\n1. Creating a dedicated document for research\n2. Breaking down the concept into smaller parts\n3. Collaborating with your team for different perspectives\n\nWould you like me to help you get started with any of these?"

\* The simulated results of semanticSearch and of findRelatedContent.
SearchResults == <<
    [type |-> "document", id |-> "doc-1",
     title |-> "Introduction to Neural Networks",
     snippet |-> "A neural network is a computational model inspired by biological neurons...",
     relevance |-> "0.95", projectName |-> "Machine Learning Study Group"],
    [type |-> "task", id |-> "task-1", title |-> "Complete Week 3 Notes",
     snippet |-> "Finish summarizing the RNN and LSTM lecture materials",
     relevance |-> "0.82", projectName |-> "Machine Learning Study Group"],
    [type |-> "document", id |-> "doc-2", title |-> "CNNs Explained",
     snippet |-> "Convolutional Neural Networks are specialized for processing grid-like data...",
     relevance |-> "0.78", projectName |-> "Machine Learning Study Group"] >>

Related == <<
    [type |-> "document", id |-> "doc-2", title |-> "CNNs Explained",
     similarity |-> "0.85"],
    [type |-> "task", id |-> "task-3", title |-> "Literature Review",
     similarity |-> "0.72"] >>

\* An entry of chatHistory.
ChatMessage(role, content, t) ==
    [role |-> role, content |-> content, timestamp |-> ToISOString(t)]

\* An AI function, up to its await: setIsProcessing(true), setError(null)
\* where the function has it, and the promise it returns is not settled.
AIStart(op, args, clearsError) ==
    /\ fuel > 0
    /\ fuel' = fuel - 1
    /\ last' = Called(op, args, Undefined)
    /\ isProcessing' = TRUE
    /\ aiError' = IF clearsError THEN Null ELSE aiError
    /\ inflight' = Append(inflight, [op |-> op, args |-> args])
    /\ UNCHANGED lastSuggestions
    /\ UNCHANGED storeVars
    /\ UNCHANGED authVars
    /\ UNCHANGED collabVars

generateContent(prompt, type) ==
    /\ AIStart("generateContent", <<prompt, type>>, TRUE)
    /\ UNCHANGED chatHistory

summarizeDocument(text, length) ==
    /\ AIStart("summarizeDocument", <<text, length>>, TRUE)
    /\ UNCHANGED chatHistory

getSmartSuggestions(context, data) ==
    /\ AIStart("getSmartSuggestions", <<context, data>>, TRUE)
    /\ UNCHANGED chatHistory

chatWithAI(message, context) ==
    /\ AIStart("chatWithAI", <<message, context>>, TRUE)
    /\ chatHistory' = Append(chatHistory, ChatMessage("user", message, now))

semanticSearch(query, options) ==
    /\ AIStart("semanticSearch", <<query, options>>, TRUE)
    /\ UNCHANGED chatHistory

findRelatedContent(item) ==
    /\ AIStart("findRelatedContent", <<item>>, FALSE)
    /\ UNCHANGED chatHistory

\* What a call returns once its timer has fired.  summarizeDocument throws
\* inside its try when AI_TEMPLATES.summarize has no such length.
Returned(call) ==
    CASE call.op = "generateContent" ->
           [success |-> TRUE, content |-> Generated(call.args[1], call.args[2])]
      [] call.op = "summarizeDocument" ->
           IF call.args[2] \in {"short", "medium", "long"}
           THEN [success |-> TRUE,
                 summary |-> Summary(call.args[2],
                                     IF FirstWords(call.args[1]) = ""
                                     THEN "this content"
                                     ELSE FirstWords(call.args[1]))]
           ELSE [success |-> FALSE,
                 error |-> "Cannot read properties of undefined (reading 'replace')"]
      [] call.op = "getSmartSuggestions" ->
           [success |-> TRUE, suggestions |-> Suggestions(call.args[1])]
      [] call.op = "chatWithAI" ->
           [success |-> TRUE, response |-> Response(call.args[1], call.args[2])]
      [] call.op = "semanticSearch" ->
           [success |-> TRUE, results |-> SearchResults]
      [] call.op = "findRelatedContent" ->
           [success |-> TRUE, related |-> Related]

\* The timers that may fire next: a call comes back before every call
\* made after it that waits as long or longer, and in any order with the
\* others, as the instants of the calls decide.
MayResume(i) ==
    /\ i \in 1..Len(inflight)
    /\ \A j \in 1..(i - 1) : Delay(inflight[j].op) > Delay(inflight[i].op)

\* An AI function, from its await on; the clock has moved on meanwhile.
aiResume(i) ==
    /\ MayResume(i)
    /\ fuel > 0
    /\ fuel' = fuel - 1
    /\ now' = now + 1
    /\ LET call == inflight[i]
           ret == Returned(call)
       IN /\ last' = Called("aiResume", <<call.op, call.args>>, ret)
          /\ lastSuggestions' = IF call.op = "getSmartSuggestions"
                                THEN ret.suggestions
                                ELSE lastSuggestions
          /\ chatHistory' = IF call.op = "chatWithAI"
                            THEN Append(chatHistory,
                                        ChatMessage("assistant", ret.response, now'))
                            ELSE chatHistory
          /\ aiError' = IF ret.success THEN aiError
                        ELSE <<"Failed to summarize document">>
    /\ isProcessing' = FALSE
    /\ inflight' = SubSeq(inflight, 1, i - 1) \o SubSeq(inflight, i + 1, Len(inflight))
    /\ UNCHANGED <<projects, documents, tasks, messages, pre, docHist>>
    /\ UNCHANGED authVars
    /\ UNCHANGED collabVars

clearChatHistory ==
    /\ fuel > 0
    /\ fuel' = fuel - 1
    /\ last' = Called("clearChatHistory", << >>, Undefined)
    /\ chatHistory' = << >>
    /\ UNCHANGED <<isProcessing, lastSuggestions, aiError, inflight>>
    /\ UNCHANGED storeVars
    /\ UNCHANGED authVars
    /\ UNCHANGED collabVars

\* ------------------------------------------------------------------ inputs

\* The ids in a collection.
IdsOf(array) == {Get(array[i], "id") : i \in 1..Len(array)}

\* createProject: a filled-in form, and one with only the owner.
ProjectData == {
    [name |-> "Thesis", description |-> "Notes", ownerId |-> "2",
     tags |-> <<"Draft">>],
    [ownerId |-> "2"] }

ProjectUpdates == { [name |-> "Renamed"] }

\* createDocument: a new document of an existing project, one of a project
\* that does not exist, and a copy of a stored document ({...doc, title}).
DocData == {
    [projectId |-> "proj-2", title |-> "Draft", content |-> "Outline",
     type |-> "markdown", createdBy |-> "2", tags |-> <<"draft">>],
    [projectId |-> "proj-404", title |-> "Stray", content |-> "",
     type |-> "markdown", createdBy |-> "3", tags |-> << >>],
    Merge(INITIAL_DOCUMENTS[2], [title |-> "Copy of Week 2"]) }

\* updateDocument: nothing, new content, the bookkeeping fields, another id.
DocUpdates == {
    Empty,
    [content |-> "Edited"],
    [version |-> 1, lastEditedBy |-> "1", updatedAt |-> "2020-01-01"],
    [id |-> "doc-3"] }

CommentData == { [userId |-> "3", text |-> "Nice"] }

\* createTask: a form without status, one that sets status and subtasks,
\* and one without a project.
TaskData == {
    [projectId |-> "proj-2", title |-> "Read", description |-> "Chapter 1",
     priority |-> "low", createdBy |-> "2", tags |-> <<"reading">>],
    [projectId |-> "proj-1", title |-> "Port", description |-> "",
     status |-> "completed", createdBy |-> "1", tags |-> << >>,
     subtasks |-> << [id |-> "st-1", title |-> "Plan", completed |-> FALSE] >>],
    [title |-> "Loose", createdBy |-> "3"] }

TaskUpdates == { [status |-> "completed"], [projectId |-> "proj-3"] }

SubtaskIds == {"st-1", "st-3", "st-404"}

\* sendMessage: a plain message, and a forwarded one that carries a reaction.
MessageData == {
    [projectId |-> "proj-1", channelId |-> "general", userId |-> "2",
     content |-> "On it"],
    [projectId |-> "proj-2", channelId |-> "random", userId |-> "1",
     content |-> "Fwd", reactions |-> << [emoji |-> "tada", userIds |-> <<"3">>] >>] }

Emojis == {"thumbsup", "tada"}

UserIds == {"1", "2"}

Queries == {"neural", "DRAFT", ""}

\* The ids of the records created during the run.
Created(array, seeded) == IdsOf(array) \ IdsOf(seeded)

\* createProject, all the ways a form is filled in: the defaults left alone,
\* its own members and status, and a copy of a stored project
\* ({...project, name}).
ProjectForms == {
    [name |-> "Thesis", description |-> "Notes", ownerId |-> "2",
     tags |-> <<"Draft">>],
    [name |-> "Team", description |-> "", ownerId |-> "3",
     members |-> <<"1", "2">>, status |-> "archived", tags |-> << >>],
    Merge(INITIAL_PROJECTS[1], [name |-> "Copy of ML"]) }

\* updateProject: a new name, a new owner, another id, the bookkeeping field.
ProjectPatches == {
    [name |-> "Renamed"],
    [ownerId |-> "3"],
    [id |-> "proj-3"],
    [updatedAt |-> "2020-01-01", status |-> "completed"] }

\* updateDocument when the editor saves the copy of doc-1 it opened.
StaleDocUpdates == { Merge(INITIAL_DOCUMENTS[1], [content |-> "Edited"]) }

\* ---------------------------------------------------------- specifications

\* Every operation that writes to the store, from the seeded state.
Next ==
    \/ Tick
    \/ \E d \in ProjectData : createProject(d)
    \/ \E id \in {"proj-1", "proj-404"}, u \in ProjectUpdates : updateProject(id, u)
    \/ \E id \in IdsOf(projects) \cup {"proj-404"} : deleteProject(id)
    \/ \E d \in DocData : createDocument(d)
    \/ \E id \in {"doc-1", "doc-404"} \cup Created(documents, INITIAL_DOCUMENTS),
          u \in DocUpdates : updateDocument(id, u, "3")
    \/ \E id \in {"doc-2"} \cup Created(documents, INITIAL_DOCUMENTS) : deleteDocument(id)
    \/ \E id \in {"doc-1", "doc-404"}, c \in CommentData : addDocumentComment(id, c)
    \/ \E d \in TaskData : createTask(d)
    \/ \E id \in {"task-1", "task-404"}, u \in TaskUpdates : updateTask(id, u)
    \/ \E id \in {"task-2"} \cup Created(tasks, INITIAL_TASKS) : deleteTask(id)
    \/ \E id \in {"task-1", "task-404"}, st \in SubtaskIds, c \in BOOLEAN :
          updateSubtask(id, st, c)
    \/ \E d \in MessageData : sendMessage(d)
    \/ \E id \in {"msg-1", "msg-404"} \cup Created(messages, INITIAL_MESSAGES),
          e \in Emojis, u \in UserIds : addReaction(id, e, u)

Spec == Init /\ [][Next]_vars

\* The operations that touch the documents, explored deeper.
InitDeep == InitStore /\ fuel = MaxDeep /\ Mounting(Empty) /\ Idle

NextDocuments ==
    \/ Tick
    \/ \E id \in {"proj-1"} : deleteProject(id)
    \/ \E d \in DocData : createDocument(d)
    \/ \E id \in {"doc-1", "doc-2", "doc-404"} \cup Created(documents, INITIAL_DOCUMENTS),
          u \in DocUpdates : updateDocument(id, u, "3")
    \/ \E id \in {"doc-2"} \cup Created(documents, INITIAL_DOCUMENTS) : deleteDocument(id)
    \/ \E id \in {"doc-1", "doc-404"}, c \in CommentData : addDocumentComment(id, c)

SpecDocuments == InitDeep /\ [][NextDocuments]_vars

\* The operations that touch the tasks, explored deeper.
NextTasks ==
    \/ Tick
    \/ \E id \in {"proj-1"} : deleteProject(id)
    \/ \E d \in TaskData : createTask(d)
    \/ \E id \in {"task-1", "task-404"} \cup Created(tasks, INITIAL_TASKS),
          u \in TaskUpdates : updateTask(id, u)
    \/ \E id \in {"task-2"} \cup Created(tasks, INITIAL_TASKS) : deleteTask(id)
    \/ \E id \in {"task-1", "task-3", "task-404"} \cup Created(tasks, INITIAL_TASKS),
          st \in SubtaskIds, c \in BOOLEAN : updateSubtask(id, st, c)

SpecTasks == InitDeep /\ [][NextTasks]_vars

\* The operations that touch the messages, explored deeper.
NextMessages ==
    \/ Tick
    \/ \E id \in {"proj-2"} : deleteProject(id)
    \/ \E d \in MessageData : sendMessage(d)
    \/ \E id \in {"msg-1", "msg-2", "msg-404"} \cup Created(messages, INITIAL_MESSAGES),
          e \in Emojis, u \in UserIds : addReaction(id, e, u)

SpecMessages == InitDeep /\ [][NextMessages]_vars

\* The operations on the projects, explored deeper.
NextProjects ==
    \/ Tick
    \/ \E d \in ProjectForms : createProject(d)
    \/ \E id \in {"proj-2", "proj-404"} \cup Created(projects, INITIAL_PROJECTS),
          u \in ProjectPatches : updateProject(id, u)
    \/ \E id \in {"proj-1"} \cup Created(projects, INITIAL_PROJECTS) : deleteProject(id)

SpecProjects == InitDeep /\ [][NextProjects]_vars

\* The operations that write the comments of the documents.
NextComments ==
    \/ Tick
    \/ \E d \in DocData : createDocument(d)
    \/ \E id \in {"doc-1", "doc-404"} \cup Created(documents, INITIAL_DOCUMENTS),
          u \in DocUpdates \cup StaleDocUpdates : updateDocument(id, u, "3")
    \/ \E id \in {"doc-2"} : deleteDocument(id)
    \/ \E id \in {"proj-2"} : deleteProject(id)
    \/ \E id \in {"doc-1", "doc-404"} \cup Created(documents, INITIAL_DOCUMENTS),
          c \in CommentData : addDocumentComment(id, c)

SpecComments == InitDeep /\ [][NextComments]_vars

\* login(email, password), as the login page sends it: two accounts, and
\* the email of one account with the password of another.
Credentials == { <<"admin@student.edu", "admin123">>,
                 <<"viewer@student.edu", "viewer123">>,
                 <<"editor@student.edu", "admin123">> }

\* What an earlier visit has left in localStorage: nothing, or the session
\* of a login.
SavedStorages ==
    { Empty,
      [currentUser |-> JSONStringify(Delete(SAMPLE_USERS[2], "password")),
       isAuthenticated |-> "true"] }

\* The session.
InitAuth ==
    InitStore /\ fuel = MaxAuth /\ Idle /\ \E s \in SavedStorages : Mounting(s)

NextAuth ==
    \/ checkAuth
    \/ \E c \in Credentials : login(c[1], c[2])
    \/ loginSettle
    \/ logout
    \/ \E u \in ProfileUpdates : updateProfile(u)

SpecAuth == InitAuth /\ [][NextAuth]_vars

\* The documents and the users of the collaboration calls.
CollabDocs == {"doc-1", "doc-2"}

\* The locks, next to the updates they are meant to guard.
NextLocks ==
    \/ \E d \in CollabDocs, u \in UserIds : lockDocument(d, u)
    \/ \E d \in CollabDocs : unlockDocument(d)
    \/ \E u \in UserIds, x \in {[content |-> "Edited"]} :
          updateDocument("doc-1", x, u)

SpecLocks == InitDeep /\ [][NextLocks]_vars

\* The presence lists, next to the operations that remove documents.
NextPresence ==
    \/ \E d \in CollabDocs, u \in UserIds : joinDocument(d, u)
    \/ \E d \in CollabDocs, u \in UserIds : leaveDocument(d, u)
    \/ lockDocument("doc-1", "1")
    \/ unlockDocument("doc-1")
    \/ deleteDocument("doc-1")
    \/ deleteProject("proj-1")

SpecPresence == InitDeep /\ [][NextPresence]_vars

\* chatWithAI(message, context), as the assistant page sends it.
ChatInputs == { <<"Summarize this", Empty>>,
                <<"Why?", [currentDocument |-> INITIAL_DOCUMENTS[2]]>> }

\* The AI assistant: the pages' calls, the Dashboard's getSmartSuggestions
\* on mount among them, and the timers.
NextAI ==
    \/ generateContent("graphs", "rewrite")
    \/ \E length \in {"short", "huge"} :
          summarizeDocument("Neural networks learn from data by example", length)
    \/ getSmartSuggestions("project", Empty)
    \/ \E c \in ChatInputs : chatWithAI(c[1], c[2])
    \/ semanticSearch("neural", Empty)
    \/ findRelatedContent(INITIAL_DOCUMENTS[1])
    \/ \E i \in 1..Len(inflight) : aiResume(i)
    \/ clearChatHistory

InitAI == InitStore /\ fuel = MaxAI /\ Mounting(Empty) /\ Idle

SpecAI == InitAI /\ [][NextAI]_vars

\* The search, over the stores that creating, updating and deleting records
\* leaves.
NextSearch ==
    \/ \E d \in ProjectData : createProject(d)
    \/ \E id \in {"proj-1"}, u \in ProjectUpdates : updateProject(id, u)
    \/ \E id \in {"proj-1", "proj-3"} : deleteProject(id)
    \/ \E d \in DocData : createDocument(d)
    \/ \E id \in {"doc-1"}, u \in {[content |-> "Edited"]} : updateDocument(id, u, "3")
    \/ \E d \in TaskData : createTask(d)
    \/ \E id \in {"task-1"} : deleteTask(id)
    \/ \E q \in Queries : searchWorkspace(q)

SpecSearch == Init /\ [][NextSearch]_vars

\* ------------------------------------------------------------------ claims

\* A call that returns nothing made by name `op`.
After(op) == last.op = op

\* C1: a document made by createDocument that n >= 1 updateDocument calls
\* have hit has version n + 1, whatever the payloads were.
C1_VersionCountsUpdates ==
    \A i \in 1..Len(documents) :
        (docHist[i].created /\ docHist[i].updates >= 1)
            => documents[i].version = docHist[i].updates + 1

\* C2: in every step, the version found under a document id that is in the
\* collection before and after the step either stays, or grows by one in an
\* updateDocument call that names this id.
C2_VersionOnlyBumpedByUpdate ==
    [][\A id \in IdsOf(documents) \cap IdsOf(documents') :
          LET v == Find(documents, id).version
              w == Find(documents', id).version
          IN \/ w = v
             \/ /\ w = v + 1
                /\ last'.op = "updateDocument"
                /\ last'.args[1] = id]_vars

\* The channels some message was ever sent to.
Channels ==
    {Get(pre.messages[i], "channelId") : i \in 1..Len(pre.messages)}
        \cup {"general", "random"}

\* The records of `before` that do not belong to project p, in their order.
OfOtherProjects(before, p) ==
    LET F[i \in 0..Len(before)] ==
            IF i = 0 THEN << >>
            ELSE IF Get(before[i], "projectId") = p THEN F[i - 1]
            ELSE Append(F[i - 1], before[i])
    IN F[Len(before)]

\* C3: right after deleteProject(p) no project has id p, the documents, the
\* tasks and every channel of p are empty, and the records of the other
\* projects are those of before the call, in the same order.
C3_DeleteProjectCascades ==
    After("deleteProject") =>
        LET p == last.args[1] IN
        /\ \A i \in 1..Len(projects) : projects[i].id # p
        /\ getProjectDocuments(p) = << >>
        /\ getProjectTasks(p) = << >>
        /\ \A c \in Channels : getChannelMessages(p, c) = << >>
        /\ documents = OfOtherProjects(pre.documents, p)
        /\ tasks = OfOtherProjects(pre.tasks, p)
        /\ messages = OfOtherProjects(pre.messages, p)

\* C3 is exercised: proj-1 is deleted with its documents, tasks and messages
\* while a document, two tasks and a message of other projects stay.
C3_Witness ==
    /\ After("deleteProject")
    /\ last.args[1] = "proj-1"
    /\ Len(documents) = 1 /\ Len(pre.documents) = 3
    /\ Len(tasks) = 2
    /\ Len(messages) = 1 /\ Len(pre.messages) = 4

\* C4: every document, task and message belongs to a project that is in the
\* projects collection.
C4_ReferentialIntegrity ==
    /\ \A i \in 1..Len(documents) : HasId(projects, Get(documents[i], "projectId"))
    /\ \A i \in 1..Len(tasks) : HasId(projects, Get(tasks[i], "projectId"))
    /\ \A i \in 1..Len(messages) : HasId(projects, Get(messages[i], "projectId"))

UsersOf(reactions, e) ==
    LET F[k \in 0..Len(reactions)] ==
            IF k = 0 THEN << >>
            ELSE IF reactions[k].emoji = e
                 THEN F[k - 1] \o reactions[k].userIds ELSE F[k - 1]
    IN F[Len(reactions)]

\* The entries of `reactions` for the emojis other than e, in their order.
OtherEntries(reactions, e) ==
    LET F[k \in 0..Len(reactions)] ==
            IF k = 0 THEN << >>
            ELSE IF reactions[k].emoji = e THEN F[k - 1]
                 ELSE Append(F[k - 1], reactions[k])
    IN F[Len(reactions)]

\* C6: when addReaction(m, e, u2) is the call that follows addReaction(m, e,
\* u1) on a message that was there, each message with id m then holds one
\* entry for e, its userIds being those of before the two calls followed by
\* u1 and u2; its other entries and fields, and the other messages, are as
\* they were before the two calls.
C6_TwoReactionsInOrder ==
    [][(/\ last.op = "addReaction" /\ last'.op = "addReaction"
        /\ now' = now
        /\ last'.args[1] = last.args[1] /\ last'.args[2] = last.args[2]
        /\ HasId(pre.messages, last.args[1]))
       => LET m == last.args[1]
              e == last.args[2]
              u1 == last.args[3]
              u2 == last'.args[3]
              before == pre.messages
              after == messages'
          IN /\ Len(after) = Len(before)
             /\ \A i \in 1..Len(before) :
                  IF before[i].id # m THEN after[i] = before[i]
                  ELSE /\ Cardinality({k \in 1..Len(after[i].reactions) :
                                         after[i].reactions[k].emoji = e}) = 1
                       /\ UsersOf(after[i].reactions, e) =
                            UsersOf(before[i].reactions, e) \o <<u1, u2>>
                       /\ OtherEntries(after[i].reactions, e) =
                            OtherEntries(before[i].reactions, e)
                       /\ DOMAIN after[i] = DOMAIN before[i]
                       /\ \A f \in DOMAIN before[i] \ {"reactions"} :
                            after[i][f] = before[i][f]]_vars

\* C6 is exercised: user 1 reacted twice in a row to msg-1 with the emoji
\* users 2 and 3 had used, and nothing else was called.
C6_Witness ==
    /\ After("addReaction")
    /\ last.args = <<"msg-1", "thumbsup", "1">>
    /\ fuel = MaxDeep - 2
    /\ messages[1].reactions =
          << [emoji |-> "thumbsup", userIds |-> <<"2", "3", "1", "1">>] >>

\* C7: updateSubtask raises nothing; when no task has taskId, or none of
\* those tasks has a subtask with subtaskId, the tasks are as before; else
\* the tasks are as before but for the completed flag of the subtasks with
\* subtaskId inside the tasks with taskId, which is the one passed.
C7_UpdateSubtask ==
    After("updateSubtask") =>
        LET taskId == last.args[1]
            subtaskId == last.args[2]
            completed == last.args[3]
            before == pre.tasks
            found == \E i \in 1..Len(before) :
                        /\ before[i].id = taskId
                        /\ \E j \in 1..Len(before[i].subtasks) :
                              before[i].subtasks[j].id = subtaskId
        IN /\ ~last.threw
           /\ ~found => tasks = before
           /\ Len(tasks) = Len(before)
           /\ \A i \in 1..Len(before) :
                /\ DOMAIN tasks[i] = DOMAIN before[i]
                /\ \A f \in DOMAIN before[i] \ {"subtasks"} :
                      tasks[i][f] = before[i][f]
                /\ Len(tasks[i].subtasks) = Len(before[i].subtasks)
                /\ \A j \in 1..Len(before[i].subtasks) :
                      LET old == before[i].subtasks[j]
                          new == tasks[i].subtasks[j]
                      IN /\ new.id = old.id
                         /\ new.title = old.title
                         /\ new.completed =
                              IF before[i].id = taskId /\ old.id = subtaskId
                              THEN completed ELSE old.completed

\* C7 is exercised: after st-3 of task-1 was completed, a call names a
\* subtask task-1 does not have and changes nothing.
C7_Witness ==
    /\ After("updateSubtask")
    /\ last.args[1] = "task-1" /\ last.args[2] = "st-404"
    /\ HasId(tasks, "task-1")
    /\ Find(tasks, "task-1").subtasks[3].completed
    /\ tasks = pre.tasks

\* C8: right after createTask(d) the tasks are those of before followed by
\* the returned record, which getProjectTasks(d.projectId) lists last; the
\* record has every field of d with d's value, and status "todo", subtasks
\* [] and comments [] where d has none.
C8_CreateTaskRoundTrip ==
    After("createTask") =>
        LET d == last.args[1]
            r == last.ret
            listed == getProjectTasks(Get(d, "projectId"))
        IN /\ tasks = Append(pre.tasks, r)
           /\ Len(listed) > 0
           /\ listed[Len(listed)] = r
           /\ \A f \in DOMAIN d : f \in DOMAIN r /\ r[f] = d[f]
           /\ "status" \notin DOMAIN d => r.status = "todo"
           /\ "subtasks" \notin DOMAIN d => r.subtasks = << >>
           /\ "comments" \notin DOMAIN d => r.comments = << >>

\* C8 is exercised: a task is created with its own status and subtasks after
\* another one was created.
C8_Witness ==
    /\ After("createTask")
    /\ Get(last.args[1], "status") = "completed"
    /\ last.ret.status = "completed"
    /\ Len(last.ret.subtasks) = 1
    /\ Len(tasks) = 6

\* The query occurs, whatever the case, in one of the text fields of rec
\* that are there or in one of its tags.
Hit(rec, field1, field2, query) ==
    \/ \E f \in {field1, field2} \cap DOMAIN rec :
          Includes(ToLowerCase(rec[f]), ToLowerCase(query))
    \/ /\ "tags" \in DOMAIN rec
       /\ \E k \in 1..Len(rec.tags) :
             Includes(ToLowerCase(rec.tags[k]), ToLowerCase(query))

\* The records of `array` the query occurs in, in their order.
Hits(array, field1, field2, query) ==
    LET F[i \in 0..Len(array)] ==
            IF i = 0 THEN << >>
            ELSE IF Hit(array[i], field1, field2, query)
                 THEN Append(F[i - 1], array[i]) ELSE F[i - 1]
    IN F[Len(array)]

\* C9: in every state of the store and for every query, searchWorkspace
\* returns the projects, documents and tasks the query occurs in, each once
\* and in the order of its collection, with their number as totalResults,
\* and leaves the store as it was.
C9_SearchResult ==
    After("searchWorkspace") =>
        LET query == last.args[1] IN
        /\ ~last.threw
        /\ last.ret.projects = Hits(projects, "name", "description", query)
        /\ last.ret.documents = Hits(documents, "title", "content", query)
        /\ last.ret.tasks = Hits(tasks, "title", "description", query)
        /\ last.ret.totalResults = Len(last.ret.projects)
              + Len(last.ret.documents) + Len(last.ret.tasks)
        /\ pre = Snapshot

\* C10: no call to the store throws.
C10_NothingThrows == ~last.threw

\* C11: the members of every project include its ownerId.
C11_OwnerIsMember ==
    \A i \in 1..Len(projects) :
        \E n \in 1..Len(projects[i].members) :
            projects[i].members[n] = Get(projects[i], "ownerId")

\* C12: no two records of the projects collection share an id.
C12_UniqueProjectIds ==
    \A i, j \in 1..Len(projects) : projects[i].id = projects[j].id => i = j

\* C13: right after updateProject with an id no project had, nothing was
\* thrown and the four collections are those of before the call.
C13_UpdateMissingProject ==
    (After("updateProject") /\ ~HasId(pre.projects, last.args[1]))
        => /\ ~last.threw
           /\ projects = pre.projects
           /\ documents = pre.documents
           /\ tasks = pre.tasks
           /\ messages = pre.messages

\* C13 is exercised: after a project was created and a stored one renamed,
\* updateProject names an id that no project has.
C13_Witness ==
    /\ After("updateProject")
    /\ last.args[1] = "proj-404"
    /\ Len(projects) = 4
    /\ projects[2].name = "Renamed"
    /\ projects = pre.projects

\* a is the beginning of b.
IsPrefix(a, b) == Len(a) <= Len(b) /\ SubSeq(b, 1, Len(a)) = a

\* C14: in every step the comments of a document that stays in the
\* collection keep everything they held, in order, and only grow at the end:
\* a step that removes no document leaves each document in its place with
\* its old comments as a prefix of the new; a step that removes documents
\* leaves the others as they were.
C14_CommentsAppendOnly ==
    [][IF Len(documents') >= Len(documents)
       THEN \A i \in 1..Len(documents) :
                IsPrefix(documents[i].comments, documents'[i].comments)
       ELSE \A j \in 1..Len(documents') :
                \E i \in 1..Len(documents) : documents'[j] = documents[i]]_vars

\* C15: right after createProject(data) the projects are the old projects
\* followed by the returned record; the record holds every field of data as
\* given, status "active" and members [data.ownerId] where data has none of
\* its own; documents, tasks and messages are those of before the call.
C15_CreateProject ==
    After("createProject") =>
        LET data == last.args[1]
            rec  == last.ret
        IN /\ ~last.threw
           /\ projects = Append(pre.projects, rec)
           /\ \A k \in DOMAIN data : k \in DOMAIN rec /\ rec[k] = data[k]
           /\ "status" \notin DOMAIN data => rec.status = "active"
           /\ "members" \notin DOMAIN data
                 => rec.members = <<Get(data, "ownerId")>>
           /\ documents = pre.documents
           /\ tasks = pre.tasks
           /\ messages = pre.messages

\* C15 is exercised: a second project is created, from data that brings its
\* own status and members, after one that took the defaults.
C15_Witness ==
    /\ After("createProject")
    /\ Len(projects) = 5
    /\ projects[4].status = "active"
    /\ projects[4].members = <<"2">>
    /\ projects[5].status = "archived"
    /\ projects[5].members = <<"1", "2">>

\* The step is a call of op (the clock stands still during a call).
StepOf(op) == last'.op = op /\ fuel' = fuel - 1 /\ now' = now

\* C19: a step updateProject(id, updates) with id among the projects keeps
\* the length and order of projects; every project with this id gets
\* updatedAt = the clock of the call, the fields of updates (but updatedAt)
\* as given, and keeps its other fields; projects with another id, and the
\* documents, tasks and messages, stay as they are.
C19_UpdateProjectFrame ==
    [][(StepOf("updateProject") /\ HasId(projects, last'.args[1])) =>
          LET id == last'.args[1]
              u  == last'.args[2]
          IN /\ ~last'.threw
             /\ Len(projects') = Len(projects)
             /\ \A i \in 1..Len(projects) :
                   IF projects[i].id = id
                   THEN /\ DOMAIN projects'[i] =
                              DOMAIN projects[i] \cup DOMAIN u \cup {"updatedAt"}
                        /\ projects'[i].updatedAt = ToISOString(now)
                        /\ \A k \in DOMAIN u \ {"updatedAt"} :
                              projects'[i][k] = u[k]
                        /\ \A k \in DOMAIN projects[i] \ (DOMAIN u \cup {"updatedAt"}) :
                              projects'[i][k] = projects[i][k]
                   ELSE projects'[i] = projects[i]
             /\ documents' = documents
             /\ tasks' = tasks
             /\ messages' = messages]_vars

\* C19 is exercised: proj-2, second of four projects, was updated with a
\* payload that carries its own updatedAt, and holds the clock's instead.
C19_Witness ==
    /\ After("updateProject")
    /\ last.args[1] = "proj-2"
    /\ "updatedAt" \in DOMAIN last.args[2]
    /\ Len(projects) = 4
    /\ projects[2].status = "completed"
    /\ projects[2].updatedAt # last.args[2].updatedAt
    /\ projects[2].updatedAt # pre.projects[2].updatedAt

\* C20: a step updateDocument(id, updates, userId) keeps the length and
\* order of documents; every document with this id gets version = old
\* version + 1, lastEditedBy = userId and updatedAt = the clock of the call,
\* whatever updates carries; documents with another id stay as they are, so
\* an id that no document has changes nothing.
C20_UpdateDocumentBookkeeping ==
    [][StepOf("updateDocument") =>
          LET id     == last'.args[1]
              userId == last'.args[3]
          IN /\ ~last'.threw
             /\ Len(documents') = Len(documents)
             /\ \A i \in 1..Len(documents) :
                   IF documents[i].id = id
                   THEN /\ documents'[i].version = documents[i].version + 1
                        /\ documents'[i].lastEditedBy = userId
                        /\ documents'[i].updatedAt = ToISOString(now)
                   ELSE documents'[i] = documents[i]
             /\ ~HasId(documents, id) => documents' = documents]_vars

\* C20 is exercised: doc-1 at version 3 was updated with a payload carrying
\* version 1, lastEditedBy "1" and an updatedAt, and is at version 4.
C20_Witness ==
    /\ After("updateDocument")
    /\ last.args[1] = "doc-1"
    /\ "version" \in DOMAIN last.args[2]
    /\ last.args[2].version = 1
    /\ documents[1].version = pre.documents[1].version + 1
    /\ documents[1].lastEditedBy = last.args[3]
    /\ documents[1].lastEditedBy # "1"
    /\ docHist[1].updates = 2

\* The pair is that of an entry of the sample user list.
Matches(email, password) ==
    \E i \in 1..Len(SAMPLE_USERS) :
        SAMPLE_USERS[i].email = email /\ SAMPLE_USERS[i].password = password

C17_LogoutClearsSession ==
    [][/\ StepOf("logout") =>
             /\ user' = Null
             /\ "currentUser" \notin DOMAIN localStorage'
             /\ "isAuthenticated" \notin DOMAIN localStorage'
             /\ ProtectedRoute("page")' = "Navigate to /login"
       /\ (/\ ProtectedRoute("page") = "Navigate to /login"
           /\ ProtectedRoute("page")' = "page")
             => /\ StepOf("loginSettle")
                /\ last'.ret.success
                /\ stale = 0]_vars

\* The seven permissions.
AllPermissions == {"manage_users", "delete_projects", "edit_settings",
                   "create", "edit", "view", "delete"}

\* What a role is said to be granted.
Granted(role) ==
    CASE role = "viewer" -> {"view"}
      [] role = "editor" -> {"create", "edit", "view"}
      [] role = "admin" -> AllPermissions
      [] OTHER -> {}

\* C18: hasPermission(p) is true exactly for the permissions granted to the
\* role of the current user (view; create, edit, view; all seven), hence
\* for none without a user; the viewer's are among the editor's and these
\* among the admin's; and canEdit() is hasPermission('edit').
C18_Permissions ==
    /\ \A p \in AllPermissions \cup {"publish"} :
          hasPermission(p) <=> (user # Null /\ p \in Granted(Role))
    /\ \A p \in AllPermissions :
          /\ (Role = "viewer" /\ hasPermission(p))
                => \E n \in 1..Len(permissions.editor) : permissions.editor[n] = p
          /\ (Role = "editor" /\ hasPermission(p))
                => \E n \in 1..Len(permissions.admin) : permissions.admin[n] = p
    /\ canEdit <=> hasPermission("edit")

\* C18 is exercised: the viewer has logged in, may view and may not edit.
C18_Witness ==
    /\ After("loginSettle")
    /\ last.ret.success
    /\ Role = "viewer"
    /\ hasPermission("view")
    /\ ~hasPermission("edit")
    /\ ~canEdit

\* The lock entries of the documents other than d are the same in both.
SameOtherLocks(before, after, d) ==
    /\ DOMAIN after \ {d} = DOMAIN before \ {d}
    /\ \A e \in DOMAIN before \ {d} : after[e] = before[e]

\* C21: the lock entry of a document is one user id; lockDocument(d, u)
\* makes u the holder of d whoever held it, unlockDocument(d) leaves d
\* without entry whoever held it and changes nothing when d had none, and
\* both leave the entries of all other documents as they were.
C21_Locks ==
    [][/\ \A d \in DOMAIN documentLocks' : documentLocks'[d] \in UserIds
       /\ StepOf("lockDocument") =>
             /\ last'.args[1] \in DOMAIN documentLocks'
             /\ documentLocks'[last'.args[1]] = last'.args[2]
             /\ SameOtherLocks(documentLocks, documentLocks', last'.args[1])
       /\ StepOf("unlockDocument") =>
             /\ last'.args[1] \notin DOMAIN documentLocks'
             /\ SameOtherLocks(documentLocks, documentLocks', last'.args[1])
             /\ last'.args[1] \notin DOMAIN documentLocks
                   => documentLocks' = documentLocks]_vars

\* C21 is exercised: user 2 has locked doc-1, which user 1 edited, while
\* user 1 holds doc-2, within three calls.
C21_Witness ==
    /\ After("lockDocument")
    /\ last.args = <<"doc-1", "2">>
    /\ documentLocks = [k \in CollabDocs |-> IF k = "doc-1" THEN "2" ELSE "1"]
    /\ documents[1].lastEditedBy = "1"
    /\ fuel = MaxDeep - 3

\* C22: a step updateDocument(d, updates, u) leaves documentLocks as it is
\* and gives every document with id d the fields of updates, version + 1
\* and lastEditedBy = u, whoever holds the lock of d.
C22_LockIsAdvisory ==
    [][StepOf("updateDocument") =>
          LET d == last'.args[1]
              updates == last'.args[2]
              u == last'.args[3]
          IN /\ documentLocks' = documentLocks
             /\ \A i \in 1..Len(documents) :
                   documents[i].id = d =>
                      /\ documents'[i].version = documents[i].version + 1
                      /\ documents'[i].lastEditedBy = u
                      /\ \A k \in DOMAIN updates
                               \ {"version", "lastEditedBy", "updatedAt"} :
                            documents'[i][k] = updates[k]]_vars

\* C22 is exercised: user 1 has updated doc-1 while user 2 holds its lock.
C22_Witness ==
    /\ After("updateDocument")
    /\ last.args[1] = "doc-1"
    /\ last.args[3] = "1"
    /\ "doc-1" \in DOMAIN documentLocks
    /\ documentLocks["doc-1"] = "2"
    /\ documents[1].content = "Edited"
    /\ documents[1].lastEditedBy = "1"
    /\ documents[1].version = pre.documents[1].version + 1

\* C23: no user id is listed twice for a document.
C23_PresenceIsASet ==
    \A d \in DOMAIN activeCollaborators :
        \A m, n \in 1..Len(activeCollaborators[d]) :
            activeCollaborators[d][m] = activeCollaborators[d][n] => m = n

\* The user is listed for the document.
Listed(collaborators, d, u) ==
    /\ d \in DOMAIN collaborators
    /\ \E n \in 1..Len(collaborators[d]) : collaborators[d][n] = u

\* C24: a user listed for a document stays listed through every step but
\* leaveDocument of this document and user, and is not listed at all after
\* that step.
C24_PresenceUntilLeave ==
    [][\A d \in CollabDocs, u \in UserIds :
          IF StepOf("leaveDocument") /\ last'.args = <<d, u>>
          THEN ~Listed(activeCollaborators', d, u)
          ELSE Listed(activeCollaborators, d, u)
                  => Listed(activeCollaborators', d, u)]_vars

\* C24 is exercised: doc-1 has been deleted with its project and user 1,
\* who joined it, is still listed, after user 2 has left it.
C24_Witness ==
    /\ After("deleteProject")
    /\ ~HasId(documents, "doc-1")
    /\ Listed(activeCollaborators, "doc-1", "1")
    /\ ~Listed(activeCollaborators, "doc-1", "2")
    /\ activeCollaborators["doc-1"] = <<"1">>
    /\ fuel = 0

\* The elements of r are found in s, in their order, from position i on.
RECURSIVE Embeds(_, _, _)
Embeds(r, s, i) ==
    IF r = << >> THEN TRUE
    ELSE IF i > Len(s) THEN FALSE
    ELSE IF s[i] = Head(r) THEN Embeds(Tail(r), s, i + 1)
    ELSE Embeds(r, s, i + 1)

\* The (project, channel) pairs a message is sent to or asked for.
ChannelPairs == {"proj-1", "proj-2"} \X {"general", "random"}

\* C25: getChannelMessages(p, c) holds only messages of project p and
\* channel c, as many as the collection has, in the order of the
\* collection; and right after sendMessage to (p, c) the returned message is
\* the last of getChannelMessages(p, c) and in the result of no other pair.
C25_ChannelMessages ==
    /\ \A pc \in ChannelPairs :
          LET r == getChannelMessages(pc[1], pc[2]) IN
          /\ \A n \in 1..Len(r) :
                Get(r[n], "projectId") = pc[1] /\ Get(r[n], "channelId") = pc[2]
          /\ Len(r) = Cardinality({i \in 1..Len(messages) :
                                     /\ Get(messages[i], "projectId") = pc[1]
                                     /\ Get(messages[i], "channelId") = pc[2]})
          /\ Embeds(r, messages, 1)
    /\ After("sendMessage") =>
          LET m == last.ret
              sentTo == <<m.projectId, m.channelId>>
              r == getChannelMessages(sentTo[1], sentTo[2])
          IN /\ r # << >>
             /\ r[Len(r)] = m
             /\ \A pc \in ChannelPairs \ {sentTo} :
                   LET o == getChannelMessages(pc[1], pc[2]) IN
                   \A n \in 1..Len(o) : o[n] # m

\* C25 is exercised: two messages were sent to general of proj-1, after the
\* three seeded ones, and one to random of proj-2.
C25_Witness ==
    /\ After("sendMessage")
    /\ last.ret.projectId = "proj-1"
    /\ Len(getChannelMessages("proj-1", "general")) = 5
    /\ getChannelMessages("proj-1", "general")[1] = INITIAL_MESSAGES[1]
    /\ Len(getChannelMessages("proj-2", "random")) = 1
    /\ getChannelMessages("proj-1", "random") = << >>

\* C26: the current user has no password property, and neither has the
\* object whose text localStorage holds under currentUser.
C26_NoPasswordStored ==
    /\ user # Null => "password" \notin DOMAIN user[1]
    /\ ("currentUser" \in DOMAIN localStorage
          /\ JSONParses(localStorage.currentUser))
          => "password" \notin DOMAIN JSONParse(localStorage.currentUser)

\* C27: when a login that was called before the last logout comes back
\* from its timer in a state with no user and no isAuthenticated key, it
\* leaves the state without user and without the key.
C27_LogoutIsFinal ==
    [][(/\ StepOf("loginSettle")
        /\ stale > 0
        /\ user = Null
        /\ "isAuthenticated" \notin DOMAIN localStorage)
          => /\ user' = Null
             /\ "isAuthenticated" \notin DOMAIN localStorage']_vars

\* C28: once the session check has run, there is a current user exactly
\* when localStorage holds 'true' under isAuthenticated.
C28_ViewsAgree ==
    last.op # "mount"
        => (isAuthenticated <=> GetItem(localStorage, "isAuthenticated") = "true")

\* C29: isProcessing is true while some AI call waits at its timer, and
\* false when none does.
C29_IsProcessing == isProcessing <=> inflight # << >>

\* C30: every assistant message of chatHistory comes right after a user
\* message, and is the response to that message.
C30_ChatPaired ==
    \A n \in 1..Len(chatHistory) :
        chatHistory[n].role = "assistant" =>
            /\ n > 1
            /\ chatHistory[n - 1].role = "user"
            /\ \E c \in ChatInputs :
                  /\ chatHistory[n - 1].content = c[1]
                  /\ chatHistory[n].content = Response(c[1], c[2])

====
